---- MODULE Spec2Model ----
(***************************************************************************)
(* Model of download.py: run (the orchestrator), resume_download (the      *)
(* resumable transfer engine) and check_md5 (the integrity verifier).      *)
(*                                                                         *)
(* Sizes are counted in model bytes: the remote object of size n is the    *)
(* byte sequence <<1, 2, ..., n>>, so that a lost, duplicated or shifted   *)
(* byte shows in the content of the artifact.                              *)
(*                                                                         *)
(* downloader.next_chunk() is googleapiclient's MediaIoBaseDownload: it    *)
(* asks for the range bytes=_progress..(_progress+chunksize-1), and on a   *)
(* 200/206 answer adds len(content) to _progress, writes the content to    *)
(* the file object and is done when _progress equals the total of the      *)
(* answer's content-range; on 416 it is done only if that total is 0; on   *)
(* any other answer it raises HttpError.  A transport failure raises       *)
(* ConnectionError/TimeoutError before anything is written.                *)
(***************************************************************************)
EXTENDS Integers, Sequences, FiniteSets, TLC

VARIABLES
    size,          \* file_info["size"]: the remote object's declared size
    md5Checksum,   \* file_info["md5Checksum"]: hex digits, <<>> when absent
    fs,            \* the save_dir: path |-> content of every existing file
    pc,            \* position of run()
    check_sum,     \* run's check_sum argument
    ret,           \* what run() returned: "True", "False", "None"
    success,       \* run's local: the value resume_download returned
    runs,          \* number of run() invocations so far
    fs0,           \* fs when the current run() was called
    existed,       \* os.path.exists(final_path) as run() saw it at line 42
    prev,          \* check_sum, ret, success and fetches of the previous run()
    raisedAt,      \* where the exception run() caught was raised, or "none"
    lookups,       \* get_file_info() calls of the current run()
    epc,           \* position of resume_download()
    max_retries,   \* resume_download's max_retries argument
    total_size,    \* resume_download's local total_size
    offset,        \* resume_download's local offset
    progress,      \* downloader._progress
    done,          \* resume_download's local done
    retries,       \* resume_download's local retries
    calls,         \* number of direct resume_download() invocations so far
    temp0,         \* the temp artifact (as opened) when resume_download started
    fetches,       \* next_chunk() calls of the current run()/resume_download()
    results,       \* the outcomes of the next_chunk() calls of the current call
    lastResult,    \* outcome of the latest next_chunk() call
    rangeStart,    \* first byte of the range the latest next_chunk() asked for
    backoffs,      \* the time.sleep() arguments since the last successful chunk
    other,         \* a second run(), of another file_id, in the same save_dir
    token,         \* token.json: "valid", "stale" (no usable credentials), "renewed"
    port           \* who runs the local server on PORT: "free", "run", "other"

vars == <<size, md5Checksum, fs, pc, check_sum, ret, success, runs, fs0, existed,
          prev, raisedAt, lookups, epc, max_retries, total_size, offset, progress, done, retries,
          calls, temp0, fetches, results, lastResult, rangeStart, backoffs,
          other, token, port>>

remoteVars == <<size, md5Checksum>>
twoVars == <<other, token, port>>
runVars == <<pc, check_sum, ret, success, runs, fs0, existed, prev, raisedAt,
            lookups>>
engineVars == <<epc, max_retries, total_size, offset, progress, done, retries,
                temp0, fetches, results, lastResult, rangeStart, backoffs>>

----------------------------------------------------------------------------
(* Bounds of the model *)

MaxSize == 6
MaxRetriesBound == 7
MaxRuns == 2
MaxCalls == 1
MaxFetches == 2

\* Largest object size when two transfers run at once.
MaxSizeTwo == 3

(* downloader chunksize, in model bytes (10 * 1024 * 1024 in the source) *)
chunksize == 2

(* max_retries as run() passes it *)
RunMaxRetries == 3

(* the ceiling of the backoff delay, in seconds *)
MaxWait == 60

----------------------------------------------------------------------------
(* Values *)

Min(a, b) == IF a < b THEN a ELSE b

\* The remote object's content.
Obj(n) == [i \in 1..n |-> i]

\* Content that is no prefix of any remote object (a foreign or damaged file).
JunkData == <<99>>

\* final_path = save_dir/name, temp_path = save_dir/{file_id}.part
final_path == "name"
temp_path == "file_id.part"

\* hashlib.md5: a running digest over the bytes, rendered as hex digits.
RECURSIVE Md5State(_, _)
Md5State(data, h) ==
    IF data = <<>> THEN h
    ELSE Md5State(Tail(data), (h * 31 + Head(data)) % 256)

HexDigest(data) ==
    LET h == Md5State(data, 7) IN <<h \div 16, h % 16>>

\* check_md5 comparing the digest's bytes, not its hex rendering.
check_md5_raw(file_path, expected_md5) == <<Md5State(fs[file_path], 7)>> = expected_md5

\* check_md5(file_path, expected_md5): md5.hexdigest() == expected_md5
check_md5(file_path, expected_md5) == HexDigest(fs[file_path]) = expected_md5

----------------------------------------------------------------------------
(* The file system *)

exists(path) == path \in DOMAIN fs

getsize(path) == Len(fs[path])

\* fs with `data` appended to the file at `path` (the file is created if absent):
\* io.FileIO(path, mode="ab") and f.write(data)
Appended(path, data) ==
    [q \in DOMAIN fs \cup {path} |->
        IF q = path THEN (IF exists(path) THEN fs[path] ELSE <<>>) \o data
        ELSE fs[q]]

\* A copy in place of the rename: src stays.
Renamed_copy(src, dst) ==
    [q \in DOMAIN fs \cup {dst} |-> IF q = dst THEN fs[src] ELSE fs[q]]

\* fs after os.rename(src, dst): dst is replaced, src is gone
Renamed(src, dst) ==
    [q \in (DOMAIN fs \ {src}) \cup {dst} |-> IF q = dst THEN fs[src] ELSE fs[q]]

----------------------------------------------------------------------------
(* resume_download *)

\* offset = os.path.getsize(temp_path) if os.path.exists(temp_path) else 0
StartOffset == IF exists(temp_path) THEN getsize(temp_path) ELSE 0

\* downloader._progress = offset
StartProgress(off) == off

\* while not done and retries < max_retries
LoopCond == ~done /\ retries < max_retries

\* The backoff without its ceiling.
retry_wait_uncapped(r) == 2 ^ r

\* retry_wait = min(2**retries, 60)
retry_wait(r) == Min(2 ^ r, MaxWait)

\* The first byte of the range next_chunk() asks for.
RangeFirst == progress

\* What the server holds for the range starting at byte `first` (0-based),
\* at most chunksize bytes long.
Content(first) == SubSeq(Obj(size), first + 1, Min(first + chunksize, size))

\* The progress advanced by the size asked for, not by the size received.
Downloaded_asked(content) == progress + chunksize

\* status.resumable_progress after `content` was received: _progress += len(content)
Downloaded(content) == progress + Len(content)

\* Lines 145-167: read the metadata, take the offset from the temp artifact,
\* open it for appending (which creates it) and set up the downloader.
resume_download_entry(mr) ==
    /\ epc = "idle"
    /\ max_retries' = mr
    /\ total_size' = size
    /\ offset' = StartOffset
    /\ fs' = Appended(temp_path, <<>>)
    /\ temp0' = fs'[temp_path]
    /\ progress' = StartProgress(StartOffset)
    /\ done' = FALSE
    /\ retries' = 0
    /\ fetches' = 0
    /\ results' = {}
    /\ lastResult' = "none"
    /\ rangeStart' = -1
    /\ backoffs' = <<>>
    /\ epc' = "loop"
    /\ UNCHANGED <<remoteVars, twoVars>>

\* Lines 171-178, the server has bytes at the range: 206, the content is
\* appended, _progress advances, done when _progress reaches the total.
next_chunk_content ==
    /\ epc = "loop" /\ LoopCond
    /\ RangeFirst < size
    /\ LET content == Content(RangeFirst)
           downloaded == Downloaded(content)
       IN /\ fs' = Appended(temp_path, content)
          /\ progress' = downloaded
          /\ done' = (downloaded = size)
          /\ offset' = downloaded
    /\ retries' = 0
    /\ rangeStart' = RangeFirst
    /\ fetches' = fetches + 1
    /\ lastResult' = "ok"
    /\ backoffs' = <<>>
    /\ results' = results \cup {"ok"}
    /\ UNCHANGED <<remoteVars, twoVars, runVars, epc, max_retries, total_size, temp0,
                   calls>>

\* Lines 171-178, an object of size 0: 416 with a total of 0, next_chunk()
\* reports done without writing.
next_chunk_empty ==
    /\ epc = "loop" /\ LoopCond
    /\ RangeFirst >= size /\ size = 0
    /\ done' = TRUE
    /\ offset' = progress
    /\ retries' = 0
    /\ rangeStart' = RangeFirst
    /\ fetches' = fetches + 1
    /\ lastResult' = "ok"
    /\ backoffs' = <<>>
    /\ results' = results \cup {"ok"}
    /\ UNCHANGED <<remoteVars, twoVars, runVars, fs, epc, max_retries, total_size,
                   progress, temp0, calls>>

\* The except clause, with the failed range skipped.
Caught_skipping(result) ==
    /\ retries' = retries + 1
    /\ backoffs' = Append(backoffs, retry_wait(retries + 1))
    /\ rangeStart' = RangeFirst
    /\ fetches' = fetches + 1
    /\ lastResult' = result
    /\ results' = results \cup {result}
    /\ progress' = progress + chunksize
    /\ UNCHANGED <<remoteVars, twoVars, runVars, fs, epc, max_retries, total_size,
                   offset, done, temp0, calls>>

\* The except clause without `retries += 1`.
Caught_uncounted(result) ==
    /\ retries' = retries
    /\ backoffs' = Append(backoffs, retry_wait(retries + 1))
    /\ rangeStart' = RangeFirst
    /\ fetches' = fetches + 1
    /\ lastResult' = result
    /\ results' = results \cup {result}
    /\ UNCHANGED <<remoteVars, twoVars, runVars, fs, epc, max_retries, total_size,
                   offset, progress, done, temp0, calls>>

\* Lines 180-186: the except clause.
Caught(result) ==
    /\ retries' = retries + 1
    /\ backoffs' = Append(backoffs, retry_wait(retries + 1))
    /\ rangeStart' = RangeFirst
    /\ fetches' = fetches + 1
    /\ lastResult' = result
    /\ results' = results \cup {result}
    /\ UNCHANGED <<remoteVars, twoVars, runVars, fs, epc, max_retries, total_size,
                   offset, progress, done, temp0, calls>>

\* Lines 171, 180-186: the range starts at or after the end of a non-empty
\* object: 416 with a total other than 0, next_chunk() raises HttpError.
next_chunk_unsatisfiable ==
    /\ epc = "loop" /\ LoopCond
    /\ RangeFirst >= size /\ size # 0
    /\ Caught("range416")

\* Lines 171, 180-186: the fetch fails with one of the caught exceptions:
\* "transient" is ConnectionError, TimeoutError or HttpError 429/5xx,
\* "fatal" is HttpError 401/403/404.
next_chunk_caught ==
    /\ epc = "loop" /\ LoopCond
    /\ \E result \in {"transient", "fatal"} : Caught(result)

\* Line 171: next_chunk() raises an exception the except clause does not
\* name (OSError of the write, RefreshError of the credentials): it leaves
\* resume_download.
next_chunk_uncaught ==
    /\ epc = "loop" /\ LoopCond
    /\ epc' = "raised"
    /\ rangeStart' = RangeFirst
    /\ fetches' = fetches + 1
    /\ lastResult' = "other"
    /\ results' = results \cup {"other"}
    /\ UNCHANGED <<remoteVars, twoVars, runVars, fs, max_retries, total_size, offset,
                   progress, done, retries, temp0, backoffs, calls>>

\* Line 188: return done
resume_download_return ==
    /\ epc = "loop" /\ ~LoopCond
    /\ epc' = "returned"
    /\ UNCHANGED <<remoteVars, twoVars, runVars, fs, max_retries, total_size, offset,
                   progress, done, retries, temp0, fetches, results, lastResult,
                   rangeStart, backoffs, calls>>

Engine ==
    \/ next_chunk_content
    \/ next_chunk_empty
    \/ next_chunk_unsatisfiable
    \/ next_chunk_caught
    \/ next_chunk_uncaught
    \/ resume_download_return

----------------------------------------------------------------------------
(* resume_download called on its own, with any max_retries *)

\* The temp artifacts a call can find: none, a prefix of the object, a file
\* with foreign content, a file longer than the object.
TempChoices(n) ==
    {Obj(k) : k \in 0..n} \cup {JunkData, Obj(n) \o JunkData}

\* The final files a run can find: none, the object, a foreign file.
FinalChoices(n) == {Obj(n), JunkData}

Files(n) ==
    { f \in UNION {[D -> TempChoices(n) \cup FinalChoices(n)] :
                     D \in SUBSET {final_path, temp_path}} :
        /\ (temp_path \in DOMAIN f => f[temp_path] \in TempChoices(n))
        /\ (final_path \in DOMAIN f => f[final_path] \in FinalChoices(n)) }

InitRemote ==
    /\ size \in 0..MaxSize
    /\ md5Checksum \in {HexDigest(Obj(size)), <<>>}
    /\ fs \in Files(size)

InitLocals ==
    /\ check_sum = FALSE /\ ret = "none" /\ success = FALSE /\ runs = 0
    /\ fs0 = fs /\ existed = FALSE
    /\ prev = [check_sum |-> FALSE, ret |-> "none", success |-> FALSE,
               fetches |-> 0]
    /\ raisedAt = "none" /\ lookups = 0
    /\ epc = "idle" /\ max_retries = 0 /\ total_size = 0 /\ offset = 0
    /\ progress = 0 /\ done = FALSE /\ retries = 0 /\ calls = 0
    /\ temp0 = <<>> /\ fetches = 0 /\ results = {} /\ lastResult = "none"
    /\ rangeStart = -1 /\ backoffs = <<>>

\* No second transfer, and token.json holds valid credentials.
InitAlone ==
    /\ other = [pc |-> "absent", check_sum |-> FALSE, ret |-> "none",
                name |-> "none", progress |-> 0, raisedAt |-> "none"]
    /\ token = "valid"
    /\ port = "free"

InitEngine == InitRemote /\ InitLocals /\ InitAlone /\ pc = "direct"

\* resume_download(service, file_id, temp_path, file_info, max_retries=mr)
call_resume_download ==
    /\ pc = "direct"
    /\ calls < MaxCalls
    /\ \E mr \in 0..MaxRetriesBound : resume_download_entry(mr)
    /\ calls' = calls + 1
    /\ UNCHANGED runVars

\* The caller has the result (or the exception) of the call.
resume_download_finished ==
    /\ pc = "direct"
    /\ epc \in {"returned", "raised"}
    /\ epc' = "idle"
    /\ UNCHANGED <<remoteVars, twoVars, runVars, fs, max_retries, total_size, offset,
                   progress, done, retries, temp0, fetches, results, lastResult,
                   rangeStart, backoffs, calls>>

NextEngine ==
    \/ call_resume_download
    \/ Engine
    \/ resume_download_finished

SpecEngine == InitEngine /\ [][NextEngine]_vars

----------------------------------------------------------------------------
(* resume_download with a fetcher whose answers may carry no bytes *)

\* Lines 171-178, a 200/206 answer with an empty body although bytes are
\* missing: next_chunk() adds 0 to _progress, writes nothing and is not
\* done; the loop takes it for a success.
next_chunk_nothing ==
    /\ epc = "loop" /\ LoopCond
    /\ RangeFirst < size
    /\ fetches < MaxFetches
    /\ fs' = Appended(temp_path, <<>>)
    /\ done' = (Downloaded(<<>>) = size)
    /\ offset' = Downloaded(<<>>)
    /\ retries' = 0
    /\ rangeStart' = RangeFirst
    /\ fetches' = fetches + 1
    /\ lastResult' = "nothing"
    /\ backoffs' = <<>>
    /\ results' = results \cup {"nothing"}
    /\ UNCHANGED <<remoteVars, twoVars, runVars, epc, max_retries, total_size,
                   progress, temp0, calls>>

\* One call of resume_download, with any max_retries.
call_resume_download_once ==
    /\ pc = "direct"
    /\ calls = 0
    /\ \E mr \in 0..MaxRetriesBound : resume_download_entry(mr)
    /\ calls' = calls + 1
    /\ UNCHANGED runVars

NextLive ==
    \/ call_resume_download_once
    \/ Engine
    \/ next_chunk_nothing
    \/ resume_download_finished

SpecLive == InitEngine /\ [][NextLive]_vars

----------------------------------------------------------------------------
(* run *)

Init == InitRemote /\ InitLocals /\ InitAlone /\ pc = "idle"

engineHistory == <<max_retries, total_size, offset, progress, done, retries,
                   temp0, results, lastResult, rangeStart, backoffs>>

\* run(file_id, save_dir, credentials_path, check_sum=cs) is called.
run_call ==
    /\ pc \in {"idle", "done"}
    /\ runs < MaxRuns
    /\ \E cs \in BOOLEAN : check_sum' = cs
    /\ runs' = runs + 1
    /\ prev' = [check_sum |-> check_sum, ret |-> ret, success |-> success,
                fetches |-> fetches]
    /\ ret' = "none" /\ success' = FALSE /\ existed' = FALSE
    /\ raisedAt' = "none" /\ lookups' = 0
    /\ fs0' = fs
    /\ fetches' = 0
    /\ pc' = "init_credentials"
    /\ UNCHANGED <<remoteVars, twoVars, fs, epc, engineHistory, calls>>

\* Lines 30-36: init_credentials, build, os.makedirs.
run_init_credentials ==
    /\ pc = "init_credentials"
    /\ token # "stale"
    /\ pc' = "get_file_info"
    /\ UNCHANGED <<remoteVars, twoVars, fs, check_sum, ret, success, runs, fs0, existed,
                   prev, raisedAt, lookups, engineVars, calls>>

\* Lines 38-40: get_file_info and the two paths.
run_get_file_info ==
    /\ pc = "get_file_info"
    /\ pc' = "exists"
    /\ lookups' = lookups + 1
    /\ UNCHANGED <<remoteVars, twoVars, fs, check_sum, ret, success, runs, fs0, existed,
                   prev, raisedAt, engineVars, calls>>

\* Lines 42-50: the final path exists already.
run_exists ==
    /\ pc = "exists"
    /\ existed' = exists(final_path)
    /\ IF exists(final_path) /\ ~check_sum
         THEN ret' = "True" /\ pc' = "done"
       ELSE IF exists(final_path) /\ check_md5(final_path, md5Checksum)
         THEN ret' = "True" /\ pc' = "done"
       ELSE ret' = ret /\ pc' = "download"
    /\ UNCHANGED <<remoteVars, twoVars, fs, check_sum, success, runs, fs0, prev,
                   raisedAt, lookups, engineVars, calls>>

\* Lines 52-54: resume_download(service, file_id, temp_path, file_info,
\* max_retries=3) is entered.
run_resume_download ==
    /\ pc = "download"
    /\ resume_download_entry(RunMaxRetries)
    /\ pc' = "resume_download"
    /\ UNCHANGED <<check_sum, ret, success, runs, fs0, existed, prev, raisedAt,
                   lookups, calls>>

\* Lines 54, 56, 67-68: resume_download returned; on failure run() prints and
\* falls off its end, which returns None.
run_engine_returned ==
    /\ pc = "resume_download"
    /\ epc = "returned"
    /\ epc' = "idle"
    /\ success' = done
    /\ IF done THEN ret' = ret /\ pc' = "rename"
               ELSE ret' = "None" /\ pc' = "done"
    /\ UNCHANGED <<remoteVars, twoVars, fs, check_sum, runs, fs0, existed, prev,
                   raisedAt, lookups, engineHistory, fetches, calls>>

\* The exception that left resume_download leaving run() as well.
run_engine_raised_through ==
    /\ pc = "resume_download"
    /\ epc = "raised"
    /\ epc' = "idle"
    /\ ret' = "raised" /\ pc' = "done"
    /\ raisedAt' = "resume_download"
    /\ UNCHANGED <<remoteVars, twoVars, fs, check_sum, success, runs, fs0, existed,
                   prev, lookups, engineHistory, fetches, calls>>

\* Lines 70-72: the exception that left resume_download is caught by run().
run_engine_raised ==
    /\ pc = "resume_download"
    /\ epc = "raised"
    /\ epc' = "idle"
    /\ ret' = "False" /\ pc' = "done"
    /\ raisedAt' = "resume_download"
    /\ UNCHANGED <<remoteVars, twoVars, fs, check_sum, success, runs, fs0, existed,
                   prev, lookups, engineHistory, fetches, calls>>

\* Line 57: os.rename(temp_path, final_path)
run_rename ==
    /\ pc = "rename"
    /\ fs' = Renamed(temp_path, final_path)
    /\ pc' = "verify"
    /\ UNCHANGED <<remoteVars, twoVars, check_sum, ret, success, runs, fs0, existed,
                   prev, raisedAt, lookups, engineVars, calls>>

\* The verification with the check_sum test of line 59 inverted.
run_verify_inverted ==
    /\ pc = "verify"
    /\ IF check_sum THEN ret' = "True"
       ELSE IF check_md5(final_path, md5Checksum) THEN ret' = "True"
       ELSE ret' = "False"
    /\ pc' = "done"
    /\ UNCHANGED <<remoteVars, twoVars, fs, check_sum, success, runs, fs0, existed,
                   prev, raisedAt, lookups, engineVars, calls>>

\* Lines 59-66: the verification of the promoted file.
run_verify ==
    /\ pc = "verify"
    /\ IF ~check_sum THEN ret' = "True"
       ELSE IF check_md5(final_path, md5Checksum) THEN ret' = "True"
       ELSE ret' = "False"
    /\ pc' = "done"
    /\ UNCHANGED <<remoteVars, twoVars, fs, check_sum, success, runs, fs0, existed,
                   prev, raisedAt, lookups, engineVars, calls>>

\* The steps of run() outside resume_download that can raise: no credentials
\* (30-36), the metadata lookup fails (38), check_md5 cannot read the file
\* (46, 61), the rename is refused (57).
CanRaise ==
    \/ pc \in {"init_credentials", "get_file_info", "rename"}
    \/ pc = "exists" /\ exists(final_path) /\ check_sum
    \/ pc = "verify" /\ check_sum

\* The exception handler with a failed metadata lookup tried again.
run_except_retrying ==
    /\ CanRaise
    /\ lookups' = IF pc = "get_file_info" THEN lookups + 1 ELSE lookups
    /\ IF pc = "get_file_info" /\ lookups < 2
         THEN raisedAt' = raisedAt /\ ret' = ret /\ pc' = pc
         ELSE raisedAt' = pc /\ ret' = "False" /\ pc' = "done"
    /\ UNCHANGED <<remoteVars, twoVars, fs, check_sum, success, runs, fs0, existed,
                   prev, engineVars, calls>>

\* Lines 70-72: the exception is caught, run() returns False.
run_except ==
    /\ CanRaise
    /\ raisedAt' = pc
    /\ lookups' = IF pc = "get_file_info" THEN lookups + 1 ELSE lookups
    /\ ret' = "False" /\ pc' = "done"
    /\ UNCHANGED <<remoteVars, twoVars, fs, check_sum, success, runs, fs0, existed,
                   prev, engineVars, calls>>

Next ==
    \/ run_call
    \/ run_init_credentials
    \/ run_get_file_info
    \/ run_exists
    \/ run_resume_download
    \/ Engine
    \/ run_engine_returned
    \/ run_engine_raised
    \/ run_rename
    \/ run_verify
    \/ run_except

Spec == Init /\ [][Next]_vars

----------------------------------------------------------------------------
(* Two transfers at once: run() of file_id as above and, interleaved with it,
   a second run() of another file_id into the same save_dir. The second
   transfer's fetcher never fails and nothing in it raises, except the local
   server of the authorization flow when its port is taken. *)

\* Line 39 for the second transfer: save_dir/name, where name is the name its
\* metadata declares, the first transfer's name or another one.
other_final_path == other.name

\* Line 40 for the second transfer: save_dir/<its file_id>.part.
other_temp_path == "other_id.part"

\* The second object: as long as the first, of other content.
OtherObj(n) == [i \in 1..n |-> 10 + i]

\* The second transfer renaming its temp file onto the first transfer's name
\* whatever its own metadata declares.
other_rename_onto_first ==
    /\ other.pc = "rename"
    /\ fs' = Renamed(other_temp_path, final_path)
    /\ other' = [other EXCEPT !.pc = "verify"]
    /\ UNCHANGED <<remoteVars, runVars, engineVars, calls, token, port>>

\* Lines 20-29: the second run() is called.
other_call ==
    /\ other.pc = "idle"
    /\ \E cs \in BOOLEAN :
         other' = [other EXCEPT !.pc = "init_credentials", !.check_sum = cs]
    /\ UNCHANGED <<remoteVars, runVars, engineVars, calls, fs, token, port>>

\* Lines 81-84, 105, 38: token.json holds valid credentials, nothing is
\* written; the metadata lookup follows.
other_init_credentials ==
    /\ other.pc = "init_credentials"
    /\ token # "stale"
    /\ other' = [other EXCEPT !.pc = "exists"]
    /\ UNCHANGED <<remoteVars, runVars, engineVars, calls, fs, token, port>>

\* Lines 84-98: no usable credentials; run_local_server binds PORT.
other_run_local_server ==
    /\ other.pc = "init_credentials"
    /\ token = "stale"
    /\ port = "free"
    /\ port' = "other"
    /\ other' = [other EXCEPT !.pc = "flow"]
    /\ UNCHANGED <<remoteVars, runVars, engineVars, calls, fs, token>>

\* Lines 94-98, 70-72: PORT is bound by the other transfer's local server;
\* run_local_server raises and run() returns False.
other_port_in_use ==
    /\ other.pc = "init_credentials"
    /\ token = "stale"
    /\ port = "run"
    /\ other' = [other EXCEPT !.pc = "done", !.ret = "False",
                              !.raisedAt = "run_local_server"]
    /\ UNCHANGED <<remoteVars, runVars, engineVars, calls, fs, token, port>>

\* Lines 98-105, 38: the flow is over; the credentials are written to
\* token.json and the port is released.
other_save_token ==
    /\ other.pc = "flow"
    /\ token' = "renewed"
    /\ port' = "free"
    /\ other' = [other EXCEPT !.pc = "exists"]
    /\ UNCHANGED <<remoteVars, runVars, engineVars, calls, fs>>

\* Lines 42-50 on the second transfer's final path.
other_exists ==
    /\ other.pc = "exists"
    /\ IF exists(other_final_path) /\ ~other.check_sum
         THEN other' = [other EXCEPT !.pc = "done", !.ret = "True"]
       ELSE IF exists(other_final_path)
               /\ check_md5(other_final_path, HexDigest(OtherObj(size)))
         THEN other' = [other EXCEPT !.pc = "done", !.ret = "True"]
       ELSE other' = [other EXCEPT !.pc = "download"]
    /\ UNCHANGED <<remoteVars, runVars, engineVars, calls, fs, token, port>>

\* Lines 144-165 for the second transfer: its temp file is opened in append
\* mode and its offset is that file's length.
other_resume_download ==
    /\ other.pc = "download"
    /\ fs' = Appended(other_temp_path, <<>>)
    /\ other' = [other EXCEPT !.pc = "loop",
                              !.progress = IF exists(other_temp_path)
                                             THEN getsize(other_temp_path) ELSE 0]
    /\ UNCHANGED <<remoteVars, runVars, engineVars, calls, token, port>>

\* Lines 169-178, 56 for the second transfer: one next_chunk() that succeeds.
other_next_chunk ==
    /\ other.pc = "loop"
    /\ LET first == other.progress
           data  == SubSeq(OtherObj(size), first + 1, Min(first + chunksize, size))
       IN /\ fs' = Appended(other_temp_path, data)
          /\ other' = [other EXCEPT !.progress = first + Len(data),
                                    !.pc = IF first + Len(data) >= size
                                             THEN "rename" ELSE "loop"]
    /\ UNCHANGED <<remoteVars, runVars, engineVars, calls, token, port>>

\* Line 57 for the second transfer.
other_rename ==
    /\ other.pc = "rename"
    /\ fs' = Renamed(other_temp_path, other_final_path)
    /\ other' = [other EXCEPT !.pc = "verify"]
    /\ UNCHANGED <<remoteVars, runVars, engineVars, calls, token, port>>

\* Lines 59-66 for the second transfer.
other_verify ==
    /\ other.pc = "verify"
    /\ IF ~other.check_sum THEN other' = [other EXCEPT !.pc = "done", !.ret = "True"]
       ELSE IF check_md5(other_final_path, HexDigest(OtherObj(size)))
         THEN other' = [other EXCEPT !.pc = "done", !.ret = "True"]
       ELSE other' = [other EXCEPT !.pc = "done", !.ret = "False"]
    /\ UNCHANGED <<remoteVars, runVars, engineVars, calls, fs, token, port>>

\* Lines 84-98 in the first transfer: no usable credentials; run_local_server
\* binds PORT.
run_local_server ==
    /\ pc = "init_credentials"
    /\ token = "stale"
    /\ port = "free"
    /\ port' = "run"
    /\ pc' = "flow"
    /\ UNCHANGED <<remoteVars, other, token, fs, check_sum, ret, success, runs, fs0,
                   existed, prev, raisedAt, lookups, engineVars, calls>>

\* Lines 94-98, 70-72 in the first transfer: PORT is bound by the second
\* transfer's local server.
run_port_in_use ==
    /\ pc = "init_credentials"
    /\ token = "stale"
    /\ port = "other"
    /\ ret' = "False"
    /\ raisedAt' = "run_local_server"
    /\ pc' = "done"
    /\ UNCHANGED <<remoteVars, twoVars, fs, check_sum, success, runs, fs0, existed,
                   prev, lookups, engineVars, calls>>

\* Lines 98-105 in the first transfer: the flow is over, token.json is written.
run_save_token ==
    /\ pc = "flow"
    /\ token' = "renewed"
    /\ port' = "free"
    /\ pc' = "get_file_info"
    /\ UNCHANGED <<remoteVars, other, fs, check_sum, ret, success, runs, fs0,
                   existed, prev, raisedAt, lookups, engineVars, calls>>

\* The first transfer is run once.
run_call_first == runs = 0 /\ run_call

\* The directory holds at most a leftover temp file of the first transfer;
\* the second transfer is about to be called; token.json is usable or not.
InitTwo ==
    /\ InitRemote /\ InitLocals /\ pc = "idle"
    /\ size <= MaxSizeTwo
    /\ ~exists(final_path)
    /\ \E nm \in {final_path, "other_name"} :
         other = [pc |-> "idle", check_sum |-> FALSE, ret |-> "none",
                  name |-> nm, progress |-> 0, raisedAt |-> "none"]
    /\ token \in {"valid", "stale"}
    /\ port = "free"

NextTwo ==
    \/ run_call_first
    \/ run_init_credentials
    \/ run_local_server
    \/ run_port_in_use
    \/ run_save_token
    \/ run_get_file_info
    \/ run_exists
    \/ run_resume_download
    \/ Engine
    \/ run_engine_returned
    \/ run_engine_raised
    \/ run_rename
    \/ run_verify
    \/ run_except
    \/ other_call
    \/ other_init_credentials
    \/ other_run_local_server
    \/ other_port_in_use
    \/ other_save_token
    \/ other_exists
    \/ other_resume_download
    \/ other_next_chunk
    \/ other_rename
    \/ other_verify

SpecTwo == InitTwo /\ [][NextTwo]_vars

----------------------------------------------------------------------------
(* Vocabulary of the properties *)

IsPrefixOf(a, b) == Len(a) <= Len(b) /\ a = SubSeq(b, 1, Len(a))

\* The call of resume_download is over: it returned or it raised.
EngineOver == epc \in {"returned", "raised"}

\* The fetcher itself never failed in this call: every answer was the
\* server's answer to the range that was asked for.
NoFetcherFailure == results \subseteq {"ok", "range416"}

\* The final file that run() found did not have the expected digest.
FoundMismatch == existed /\ HexDigest(fs0[final_path]) # md5Checksum

----------------------------------------------------------------------------
(* C1: resume correctness.  For every starting offset 0 <= offset <= size  *)
(* (offset = size included), a call of resume_download (max_retries >= 1)  *)
(* that finds a temp artifact holding exactly the first `offset` bytes of  *)
(* the object and whose fetcher does not fail returns true and leaves the  *)
(* artifact a from-zero download leaves: the whole object.                 *)
C1_ResumeCorrect ==
    (epc = "returned" /\ max_retries >= 1 /\ NoFetcherFailure
        /\ IsPrefixOf(temp0, Obj(size)))
    => (done /\ fs[temp_path] = Obj(size))

\* The case C1 fails in: the temp artifact was already complete.
C1_CompleteTempRejected ==
    /\ epc = "returned" /\ max_retries >= 1 /\ NoFetcherFailure
    /\ size > 0 /\ temp0 = Obj(size)
    /\ ~done

(* C2: run() with check_sum = true finds a final file whose digest differs *)
(* from the expected one: no chunk is fetched, the final file is not       *)
(* overwritten, replaced or deleted, and the call does not report success. *)
C2_MismatchLeavesFinalAlone ==
    (check_sum /\ FoundMismatch)
    => /\ fetches = 0
       /\ exists(final_path) /\ fs[final_path] = fs0[final_path]
       /\ ret # "True"

\* The case C2 fails in: the mismatching final file was replaced.
C2_MismatchOverwritten ==
    /\ check_sum /\ FoundMismatch
    /\ pc = "done" /\ ret = "True"
    /\ fetches > 0 /\ fs[final_path] # fs0[final_path]

(* C3: run() finds the final file, and check_sum is false or the file has  *)
(* the expected digest: run() returns True at once, has fetched no chunk   *)
(* and has changed neither the final file nor the temp artifact.           *)
C3_AlreadyComplete ==
    (existed /\ (~check_sum \/ HexDigest(fs0[final_path]) = md5Checksum))
    => (pc = "done" /\ ret = "True" /\ fetches = 0 /\ fs = fs0)

C3_Witness ==
    /\ existed /\ check_sum /\ HexDigest(fs0[final_path]) = md5Checksum
    /\ pc = "done" /\ ret = "True"
    /\ exists(temp_path) /\ size > 0

C5_TrueOnlyWhenComplete ==
    /\ (epc = "returned" /\ done)
        => (offset = size /\ getsize(temp_path) = size)
    /\ (EngineOver /\ ~done)
        => /\ exists(temp_path)
           /\ getsize(temp_path) = offset
           /\ fs[temp_path] = temp0 \o SubSeq(Obj(size), Len(temp0) + 1, offset)

\* The case C5 fails in: an empty object and a temp artifact that is not empty.
C5_TrueBeyondSize ==
    epc = "returned" /\ done /\ size = 0 /\ offset > size

(* C6: retry/backoff bound.  While every next_chunk() call fails           *)
(* transiently, the k-th failure is followed by a sleep of min(2^k, 60)    *)
(* seconds, so the delays never decrease and never exceed 60; the call     *)
(* makes exactly max_retries attempts and then returns false, for every    *)
(* max_retries.                                                            *)
C6_RetryBackoffBound ==
    (results \subseteq {"transient"} /\ epc \in {"loop", "returned"})
    => /\ fetches = retries /\ Len(backoffs) = fetches
       /\ fetches <= max_retries
       /\ \A k \in 1..Len(backoffs) :
            /\ backoffs[k] = (IF 2 ^ k < 60 THEN 2 ^ k ELSE 60)
            /\ backoffs[k] <= 60
            /\ (k > 1 => backoffs[k - 1] <= backoffs[k])
       /\ (epc = "returned" => fetches = max_retries /\ ~done)

C6_Witness ==
    /\ results = {"transient"} /\ epc = "returned"
    /\ max_retries = 7 /\ fetches = 7
    /\ backoffs = <<2, 4, 8, 16, 32, 60, 60>>

(* C7: fatal short-circuit.  A next_chunk() call that fails with a fatal   *)
(* classification (HTTP 401, 403, 404) ends the call at once: the retry    *)
(* counter is not incremented, nothing is slept, no further fetch is       *)
(* issued and an error goes to the caller.                                 *)
C7_FatalShortCircuit ==
    [][(fetches' = fetches + 1 /\ lastResult' = "fatal")
        => (retries' = retries /\ backoffs' = backoffs /\ epc' = "raised")]_vars

\* The case C7 fails in: a fetch is issued after a fatal failure.
C7_FetchAfterFatal ==
    /\ "fatal" \in results /\ lastResult = "ok" /\ epc = "returned" /\ done

(* C8: retry budget.  0 <= retries <= max_retries in every state of the    *)
(* loop; every successful chunk resets the counter to zero; the counter    *)
(* changes otherwise only by an increment of one, and only on a transient  *)
(* failure; no fetch is issued once retries >= max_retries.                *)
C8_RetryBudget ==
    /\ [](epc = "loop" => 0 <= retries /\ retries <= max_retries)
    /\ [][fetches' = fetches + 1 =>
            /\ retries < max_retries
            /\ (lastResult' = "ok" => retries' = 0)
            /\ (retries' # retries /\ lastResult' # "ok"
                  => retries' = retries + 1 /\ lastResult' = "transient")]_vars

\* The scenario of C8: size 3 chunks, max_retries 3, chunks 1 and 2 succeed,
\* chunk 3 fails transiently twice and then succeeds.
C8_Scenario ==
    /\ size = 3 * chunksize /\ max_retries = 3 /\ temp0 = <<>>
    /\ results = {"ok", "transient"} /\ fetches = 5
    /\ epc = "returned" /\ done
    /\ offset = size /\ retries = 0 /\ fs[temp_path] = Obj(size)

(* C9: no byte loss or duplication.  Every fetch asks for the range that   *)
(* starts at the confirmed offset, which is the length of the temp         *)
(* artifact; a fetch issued after a transient failure asks again for the   *)
(* range of the failed attempt.  Whatever the interleaving of successes    *)
(* and transient failures, a call that finishes has appended to the temp   *)
(* artifact exactly the bytes it lacked, each once: started from an absent *)
(* artifact or from a prefix of the object, the finished artifact has the  *)
(* declared size and the object's content.                                 *)
C9_NoLossNoDuplication ==
    /\ [][fetches' = fetches + 1 =>
            /\ rangeStart' = offset
            /\ rangeStart' = getsize(temp_path)
            /\ (lastResult = "transient" => rangeStart' = rangeStart)]_vars
    /\ []((epc = "returned" /\ done /\ results \subseteq {"ok", "transient"})
            => /\ fs[temp_path] = temp0 \o SubSeq(Obj(size), Len(temp0) + 1, size)
               /\ (IsPrefixOf(temp0, Obj(size))
                     => getsize(temp_path) = size /\ fs[temp_path] = Obj(size)))

C9_Witness ==
    /\ epc = "returned" /\ done /\ results = {"ok", "transient"}
    /\ lastResult = "ok" /\ fetches >= 5
    /\ temp0 = <<1>> /\ size = 6 /\ fs[temp_path] = Obj(6)

(* C10: at every point between chunk fetches (at loop entry, after a       *)
(* success, after a failure, at loop exit) the temp artifact is on disk    *)
(* and its length equals the confirmed offset.                             *)
C10_TempLengthIsOffset ==
    (epc \in {"loop", "returned", "raised"})
    => (exists(temp_path) /\ getsize(temp_path) = offset)

C10_Witness ==
    /\ epc = "returned" /\ ~done
    /\ results = {"ok", "transient"} /\ lastResult = "transient"
    /\ 0 < Len(temp0) /\ Len(temp0) < offset /\ offset < size
    /\ offset % chunksize = 1

\* The run went through the rename and the verification without an exception.
Promoted == pc = "done" /\ success /\ raisedAt = "none"

\* The file at the final path, as a sequence of at most one content.
FinalOf(f) == IF final_path \in DOMAIN f THEN <<f[final_path]>> ELSE <<>>

(* C11: the engine succeeded, check_sum is true and the promoted file's    *)
(* digest differs from the expected digest: run() returns False, and the   *)
(* verification changes no file and fetches nothing, so the artifact stays *)
(* at the final path and the temp path stays empty.                        *)
C11_MismatchAfterDownload ==
    /\ [][pc = "verify" => (fs' = fs /\ fetches' = fetches /\ pc' = "done")]_vars
    /\ []((Promoted /\ check_sum /\ HexDigest(fs[final_path]) # md5Checksum)
            => (ret = "False" /\ exists(final_path) /\ ~exists(temp_path)))

C11_Witness ==
    /\ Promoted /\ check_sum /\ md5Checksum # <<>>
    /\ HexDigest(fs[final_path]) # md5Checksum
    /\ ret = "False" /\ fetches > 0 /\ ~exists(temp_path)

(* C12: every terminating path of run() yields an explicit outcome value   *)
(* (True or False); none ends without a return value, and the outcome      *)
(* after retry exhaustion is a defined failure value.                      *)
C12_StructuredOutcome ==
    pc = "done" => ret \in {"True", "False"}

\* The case C12 fails in: retry exhaustion ends run() without a return.
C12_NoReturnValue ==
    /\ pc = "done" /\ ret = "None"
    /\ ~success /\ retries = max_retries /\ results = {"transient"}

(* C13: with an empty or absent expected digest check_md5 returns true for *)
(* every file, so run() with check_sum = true takes an existing final file *)
(* for complete without fetching and reports a fresh download as success.  *)
C13_EmptyDigestVerifies ==
    (md5Checksum = <<>>)
    => /\ \A path \in DOMAIN fs : check_md5(path, md5Checksum)
       /\ (pc = "done" /\ check_sum /\ raisedAt = "none" /\ existed)
            => (ret = "True" /\ fetches = 0)
       /\ (Promoted /\ check_sum) => ret = "True"

\* The case C13 fails in: the existing file is downloaded again and rejected.
C13_EmptyDigestRejected ==
    /\ md5Checksum = <<>> /\ check_sum /\ existed
    /\ Promoted /\ fetches > 0 /\ ret = "False"

(* C14: the final path changes only by the rename, which happens only      *)
(* after resume_download returned true, and which moves the whole temp     *)
(* artifact: afterwards the temp path is gone and the final path holds     *)
(* what the temp artifact held.  When the engine fails (retry exhaustion   *)
(* or an exception) the final path is as it was before the run and the     *)
(* temp artifact is on disk.                                               *)
C14_PromotionOnlyOnSuccess ==
    /\ [][FinalOf(fs') # FinalOf(fs)
            => /\ pc = "rename" /\ pc' = "verify" /\ success
               /\ epc = "idle" /\ done /\ exists(temp_path)
               /\ FinalOf(fs') = <<fs[temp_path]>>
               /\ temp_path \notin DOMAIN fs']_vars
    /\ [][pc = "rename" /\ pc' = "verify"
            => /\ FinalOf(fs') = <<fs[temp_path]>>
               /\ temp_path \notin DOMAIN fs']_vars
    /\ []((pc = "done" /\ (ret = "None" \/ raisedAt \in {"resume_download", "rename"}))
            => (FinalOf(fs) = FinalOf(fs0) /\ exists(temp_path)))

C14_Witness ==
    /\ pc = "done" /\ ret = "None" /\ ~success
    /\ exists(final_path) /\ FinalOf(fs) = FinalOf(fs0)
    /\ exists(temp_path) /\ getsize(temp_path) > Len(temp0)

(* C15: the metadata lookup fails: run() returns False after exactly one   *)
(* get_file_info call, without any chunk fetch, without creating the temp  *)
(* artifact and without touching the final path.                           *)
C15_MetadataFailureIsFatal ==
    (pc = "done" /\ raisedAt = "get_file_info")
    => (ret = "False" /\ lookups = 1 /\ fetches = 0 /\ fs = fs0)

C15_Witness ==
    /\ pc = "done" /\ raisedAt = "get_file_info" /\ ret = "False"
    /\ runs = 2 /\ prev.fetches > 0 /\ ~exists(temp_path)

(* C16: an exception raised at any step of run() (credentials, metadata    *)
(* lookup, inside resume_download, rename, verification) is caught inside  *)
(* run(): the run ends with the outcome False and nothing propagates.      *)
C16_ExceptionsBecomeFalse ==
    /\ (epc = "raised" => pc = "resume_download")
    /\ ("other" \in results /\ pc = "done" /\ fetches > 0
          => raisedAt = "resume_download")
    /\ (raisedAt # "none" => pc = "done" /\ ret = "False")

C16_Witness ==
    /\ pc = "done" /\ ret = "False" /\ raisedAt = "resume_download"
    /\ lastResult = "other" /\ "ok" \in results

(* C17: in every state of a transfer 0 <= offset <= size, whatever temp    *)
(* artifact the engine found (one longer than the declared size included,  *)
(* a declared size of 0 included).                                         *)
C17_OffsetWithinSize ==
    epc # "idle" => (0 <= offset /\ offset <= size)

\* The case C17 fails in: a leftover temp artifact longer than the object.
C17_OffsetBeyondSize ==
    /\ epc = "loop" /\ size > 0 /\ offset = size + 1 /\ fetches = 0

(* C18: the engine sleeps after a transient failure only if the retry      *)
(* counter has not reached max_retries; the failure that exhausts the      *)
(* budget is followed by no sleep, so a call whose fetcher always fails    *)
(* sleeps max_retries - 1 times.                                           *)
C18_NoSleepOnExhaustion ==
    /\ [][(fetches' = fetches + 1 /\ lastResult' = "transient"
             /\ retries' >= max_retries) => backoffs' = backoffs]_vars
    /\ []((epc = "returned" /\ results = {"transient"})
            => Len(backoffs) = max_retries - 1)

\* The case C18 fails in: as many sleeps as attempts.
C18_SleepAfterLastFailure ==
    /\ epc = "returned" /\ results = {"transient"} /\ max_retries = 3
    /\ fetches = 3 /\ backoffs = <<2, 4, 8>>

\* The bytes the downloader still has to receive.
Remaining == IF progress < size THEN size - progress ELSE 0

\* A natural number that bounds the steps resume_download has left: the
\* missing bytes first, the retry budget left second.
Rank ==
    IF epc # "loop" THEN 0
    ELSE IF ~LoopCond THEN 1
    ELSE 2 + Remaining * (max_retries + 1) + (max_retries - retries)

\* A step of the loop: a next_chunk() call or the return.
LoopStep == epc = "loop" /\ (fetches' # fetches \/ epc' # epc)

(* C19, as stated: the loop terminates for every declared size, every      *)
(* max_retries and every sequence of fetch results, a success that         *)
(* delivers zero bytes included: every step of the loop brings the call    *)
(* closer to its return.                                                   *)
C19_EveryStepTerminates ==
    [][LoopStep => Rank' < Rank]_vars

(* C19, amended: the loop terminates for every declared size, every        *)
(* max_retries >= 0 and every sequence of fetch results in which each      *)
(* success delivers at least one byte or completes the object: every such  *)
(* step lowers a natural number that is 0 only once the call is over, and  *)
(* a step is possible as long as the loop runs.                            *)
C19_Terminates ==
    /\ [](Rank >= 0 /\ (Rank = 0 <=> epc # "loop"))
    /\ [][(LoopStep /\ ~(fetches' # fetches /\ lastResult' = "nothing"))
            => Rank' < Rank]_vars
    /\ [](epc = "loop" /\ ~LoopCond => ENABLED resume_download_return)
    /\ [](epc = "loop" /\ LoopCond => ENABLED next_chunk_caught)

C19_Witness ==
    /\ epc = "returned" /\ done /\ size > chunksize
    /\ results = {"ok", "transient", "fatal", "nothing"}
    /\ max_retries = 2

\* The files of the first transfer and of the second.
RunPaths == {final_path, temp_path}
OtherPaths == {other_final_path, other_temp_path}
Restrict(f, P) == [q \in DOMAIN f \cap P |-> f[q]]

\* A step of the first transfer, a step of the second.
RunStep == pc' # pc \/ epc' # epc \/ fetches' # fetches
OtherStep == other' # other

\* No step of a transfer changes a file of the other transfer.
NoSharedWrite ==
    /\ OtherStep => Restrict(fs', RunPaths) = Restrict(fs, RunPaths)
    /\ RunStep => Restrict(fs', OtherPaths) = Restrict(fs, OtherPaths)

\* What a run() that is alone guarantees once it is over: it was not refused
\* the port; it returns True without a download only for a file that was
\* there when it was called, and then changes none of its files; a file it
\* promotes is the temp file it found followed by the object's remaining
\* bytes; and with check_sum, True means the final file has the digest.
RunAsAlone ==
    /\ raisedAt # "run_local_server"
    /\ pc = "done" /\ ret = "True" /\ ~success
         => /\ final_path \in DOMAIN fs0
            /\ Restrict(fs, RunPaths) = Restrict(fs0, RunPaths)
    /\ Promoted
         => /\ exists(final_path)
            /\ fs[final_path] = temp0 \o SubSeq(Obj(size), Len(temp0) + 1, size)
    /\ pc = "done" /\ ret = "True" /\ check_sum
         => exists(final_path) /\ HexDigest(fs[final_path]) = md5Checksum

\* What the second run(), whose fetcher never fails and whose final file is
\* not there at the start, guarantees alone once it is over: it was not
\* refused the port and returns True, with its object at its final path and
\* no temp file.
OtherAsAlone ==
    other.pc = "done"
      => /\ other.raisedAt = "none"
         /\ other.ret = "True"
         /\ exists(other_final_path)
         /\ fs[other_final_path] = OtherObj(size)
         /\ ~exists(other_temp_path)

\* The two transfers have different declared names, and token.json held valid
\* credentials all along.
Apart == other_final_path # final_path /\ token = "valid"

====
